---- MODULE Spec2Model ----
(***************************************************************************)
(* Task lifecycle and process supervision of the visual feedback server    *)
(* (server/server.js, kept here as src/unnamed/part_000, lines 1-454).     *)
(*                                                                         *)
(* The server is a single Node.js event loop: every handler runs to        *)
(* completion, so every handler is one atomic action.  The agent process   *)
(* and the file system are the environment.  A child whose spawn fails     *)
(* emits 'error' and then 'close' with a negative code; a child that was  *)
(* spawned emits data events and then 'close' with its exit code (null     *)
(* when a signal ended it).                                                *)
(*                                                                         *)
(* The helper functions of the bead store (generateElementId,              *)
(* formatBeadContext) and the commit patterns of the close handler are     *)
(* operators; each has a specification of its own that applies it to one   *)
(* input drawn from a bounded set.                                         *)
(***************************************************************************)
EXTENDS Integers, Sequences, FiniteSets, TLC

\* ---------------------------------------------------------------- bounds
MaxSubmit == 2      \* visual_feedback requests received in one run
MaxChunks == 2      \* stdout/stderr chunks emitted by all agent processes
MaxTime   == 1      \* largest value of the wall clock
MaxConnections == 2 \* WebSocket connections accepted in one run
MaxFeedback == 2    \* messages and tool calls the MCP server handles in one run

\* ------------------------------------------------------- program constants
MAX_TASKS == 50
BEAD_CAP  == 10

\* ------------------------------------------------------------ value model
\* A nullable field is a sequence of length at most one.
Null    == << >>
Some(x) == << x >>
\* the value of a property that a message or an object does not have
Undefined == << "undefined", "undefined" >>

\* exit codes the close event can carry after a successful spawn: 0, a
\* nonzero code, or null (the process was ended by a signal)
ExitCodes == {Some(0), Some(1), Null}
\* the code carried by the close event that follows a failed spawn (-ENOENT)
SpawnErrCode == Some(-2)

Streams == {"stdout", "stderr"}
\* what a chunk of agent output can contain, as far as the close handler's
\* patterns tell chunks apart
Texts == {"noise", "COMMIT_HASH: h", "github.com/o/r"}
ErrorText == "Error: spawn ENOENT"

Elements == {"el-a", "el-b"}

\* payload.pageUrl: a URL, or absent from the payload
PageUrl  == Some("http://page")
PageUrls == {PageUrl, Undefined}

\* ids a request can carry: one that a loaded record may already use, and
\* a fresh one
SubmitIds == {1, MAX_TASKS + 1}

VARIABLES
    now,      \* wall clock (new Date())
    heap,     \* task objects by reference: loaded ones <= 0, request q's is q
    tasks,    \* the Map `tasks`: sequence of [id, ref] in key insertion order
    disk,     \* content of TASKS_FILE: sequence of task records
    beads,    \* content of the bead file of each element
    proc,     \* per request: the child process as the environment sees it
    events,   \* per request: the child's events delivered to the handlers
    sent,     \* per request: what the handlers ws.send() to the requester
    up,       \* the server process is running
    call,     \* one application of a helper function: argument and result
    clients,  \* the WebSocket connections the server has accepted, in order
    mcp,      \* the MCP server: its connections, connectedClient, its jobs
    ext,      \* the extension's service worker: socket, connectionStatus, ...
    page      \* the content script of one tab: pendingTask and its timers

\* the state of server.js
server == << now, heap, tasks, disk, beads, proc, events, sent, up, call, clients >>

\* the state of the browser extension
extension == << ext, page >>

vars == << now, heap, tasks, disk, beads, proc, events, sent, up, call, clients, mcp,
          ext, page >>

\* ------------------------------------------------------------ task record
NewTask(id, el, url, t) ==
    [ id          |-> id,
      element     |-> el,
      pageUrl     |-> url,
      status      |-> "processing",
      startedAt   |-> t,
      completedAt |-> Null,
      log         |-> << >>,
      exitCode    |-> Null,
      commitHash  |-> Null,
      commitUrl   |-> Null ]

\* a record written to the registry by an earlier run of the server
LoadedTask(i) ==
    [ id          |-> i,
      element     |-> "el-a",
      pageUrl     |-> PageUrl,
      status      |-> IF i = 1 THEN "processing"
                      ELSE IF i = 2 THEN "failed" ELSE "complete",
      startedAt   |-> 0,
      completedAt |-> IF i = 1 THEN Null ELSE Some(0),
      log         |-> << >>,
      exitCode    |-> IF i = 1 THEN Null
                      ELSE IF i = 2 THEN Some(1) ELSE Some(0),
      commitHash  |-> Null,
      commitUrl   |-> Null ]

\* ------------------------------------------------------------- the store
MapHas(m, id) == \E i \in DOMAIN m : m[i].id = id

\* Map.prototype.set: an existing key keeps its position and gets the new
\* value, a new key goes to the end
MapSet(m, id, ref) ==
    IF MapHas(m, id)
    THEN [i \in DOMAIN m |-> IF m[i].id = id THEN [id |-> id, ref |-> ref] ELSE m[i]]
    ELSE Append(m, [id |-> id, ref |-> ref])

\* addTask without its trailing saveTasks(): set, then drop the first key
\* when the size exceeds MAX_TASKS
addTask(m, id, ref) ==
    LET s == MapSet(m, id, ref)
    IN  IF Len(s) > MAX_TASKS THEN Tail(s) ELSE s

\* Array.from(tasks.values())
Snapshot(m, h) == [i \in DOMAIN m |-> h[m[i].ref]]

\* reading a property: undefined when the object does not have it
Prop(t, k) == IF k \in DOMAIN t THEN t[k] ELSE Undefined

\* JSON.stringify leaves out a property whose value is undefined (of the
\* modelled fields only pageUrl can be); JSON.parse gives back an object
\* without the property
StringifyTask(t) ==
    IF Prop(t, "pageUrl") = Undefined
    THEN [k \in DOMAIN t \ {"pageUrl"} |-> t[k]]
    ELSE t

Stringify(a) == [i \in DOMAIN a |-> StringifyTask(a[i])]

\* saveTasks: the file is rewritten wholesale; a write error is caught and
\* leaves the file as it was
saveTasks(m, h, old, ok) == IF ok THEN Stringify(Snapshot(m, h)) ELSE old

\* loadTasks: tasks.set(task.id, task) for the records of the file in file
\* order; the object parsed from record i of n gets reference i - n
LoadedRef(i, n) == i - n

RECURSIVE loadTasksNewestFirst(_, _, _)
loadTasksNewestFirst(m, d, i) ==
    IF i > Len(d) THEN m
    ELSE loadTasksNewestFirst(<< [id |-> d[i].id, ref |-> LoadedRef(i, Len(d))] >> \o m,
                              d, i + 1)

RECURSIVE loadTasks(_, _, _)
loadTasks(m, d, i) ==
    IF i > Len(d) THEN m
    ELSE loadTasks(MapSet(m, d[i].id, LoadedRef(i, Len(d))), d, i + 1)

LoadedHeapFailStale(d) ==
    [r \in (1 - Len(d))..0 |->
        [d[r + Len(d)] EXCEPT !.status = IF @ = "processing" THEN "failed" ELSE @]]

LoadedHeap(d) == [r \in (1 - Len(d))..0 |-> d[r + Len(d)]]

\* outcomes of a file write: the file system is healthy
WriteOutcomes == {TRUE}
\* outcomes of a file write when the file system can fail
FaultyWrites == BOOLEAN

\* how saveElementBead can end (see ChildClose)
BeadSaved    == {"saved"}
BeadOutcomes == {"saved", "writefail", "throw"}

\* ------------------------------------------------------------ the handlers
Chunk(q, n, stream, text) == [pid |-> q, seq |-> n, stream |-> stream, text |-> text]

\* the text appended by the 'error' handler
ErrorChunk(q) == Chunk(q, 0, "error", ErrorText)

\* the object a data handler appends to: the `task` it closed over
LogTargetById(q) ==
    IF \E i \in DOMAIN tasks : tasks[i].id = heap[q].id
    THEN tasks[CHOOSE i \in DOMAIN tasks : tasks[i].id = heap[q].id].ref
    ELSE q

LogTarget(q) == q

\* task.log += text
PrependLog(t, c) == [t EXCEPT !.log = << c >> \o @]

AppendLog(t, c) == [t EXCEPT !.log = Append(@, c)]

\* task.status = code === 0 ? 'complete' : 'failed'
StatusOnCloseNonPositive(code) ==
    IF code # Null /\ code[1] <= 0 THEN "complete" ELSE "failed"

StatusOnCloseFalsy(code) ==
    IF code = Null \/ code = Some(0) THEN "complete" ELSE "failed"

StatusOnClose(code) == IF code = Some(0) THEN "complete" ELSE "failed"

HasText(log, text) == \E i \in DOMAIN log : log[i].text = text

\* What the three commit patterns of the close handler capture in a piece
\* of agent output (Null: the pattern does not match in it).  h and g stand
\* for 40 hex digits; a label followed by 7 hex digits matches none of the
\* patterns.  A match that would span two pieces is not modelled.
\*   1  /COMMIT_HASH:\s*([a-f0-9]{40})/i
\*   2  /\[([a-f0-9]{7,40})\]/i
\*   3  /commit\s+([a-f0-9]{7,40})/i
PatternCapture(k, text) ==
    CASE k = 1 -> IF text = "COMMIT_HASH: h" THEN Some("h")
                  ELSE IF text = "COMMIT_HASH: g" THEN Some("g") ELSE Null
      [] k = 2 -> IF text = "[def5678]" THEN Some("def5678") ELSE Null
      [] k = 3 -> IF text = "commit 9abcdef" THEN Some("9abcdef") ELSE Null

\* String.prototype.match without the g flag: the leftmost match
PatternMatch(k, log) ==
    LET hits == {i \in DOMAIN log : PatternCapture(k, log[i].text) # Null}
    IN  IF hits = {} THEN Null
        ELSE PatternCapture(k, log[CHOOSE i \in hits : \A j \in hits : i <= j].text)

\* a.match(p1) || a.match(p2) || a.match(p3), tried on the leftmost text
\* that any pattern matches
CommitMatchLeftmost(log) ==
    LET hits == {i \in DOMAIN log :
                    \E k \in 1..3 : PatternCapture(k, log[i].text) # Null}
        first == CHOOSE i \in hits : \A j \in hits : i <= j
        one   == << log[first] >>
    IN  IF hits = {} THEN Null
        ELSE IF PatternMatch(1, one) # Null THEN PatternMatch(1, one)
        ELSE IF PatternMatch(2, one) # Null THEN PatternMatch(2, one)
        ELSE PatternMatch(3, one)

\* task.log.match(p1) || task.log.match(p2) || task.log.match(p3)
CommitMatch(log) ==
    IF PatternMatch(1, log) # Null THEN PatternMatch(1, log)
    ELSE IF PatternMatch(2, log) # Null THEN PatternMatch(2, log)
    ELSE PatternMatch(3, log)

\* What /github\.com[:/]([^/]+\/[^/\s.]+)/i captures in a piece of agent
\* output: the owner, the slash, and the repository name up to its first
\* dot, slash or white space (so the later replace(/\.git$/, '') never finds
\* anything to remove).
RemoteCapture(text) ==
    CASE text = "github.com/o/r"         -> Some("o/r")
      [] text = "git@github.com:o/r.git" -> Some("o/r")
      [] text = "github.com/o/r.js"      -> Some("o/r")
      [] OTHER                           -> Null

\* task.log.match(<the remote pattern>): the leftmost match, then
\* remoteMatch[1].replace(/\.git$/, '')
RemoteMatch(log) ==
    LET hits == {i \in DOMAIN log : RemoteCapture(log[i].text) # Null}
    IN  IF hits = {} THEN Null
        ELSE RemoteCapture(log[CHOOSE i \in hits : \A j \in hits : i <= j].text)

\* commitMatch and remoteMatch: the assignments of the close handler that
\* depend on them
ExtractCommit(t) ==
    LET c == CommitMatch(t.log)
        r == RemoteMatch(t.log)
    IN  IF c = Null THEN t
        ELSE IF r = Null THEN [t EXCEPT !.commitHash = c]
        ELSE [t EXCEPT !.commitHash = c,
                       !.commitUrl = Some(<< "https://github.com", r[1], "commit", c[1] >>)]

\* the record as the 'close' handler leaves it
CloseTaskFailOnMiss(t, code, time) ==
    ExtractCommit([t EXCEPT !.status = IF CommitMatch(t.log) = Null
                                       THEN "failed" ELSE StatusOnClose(code),
                            !.completedAt = Some(time),
                            !.exitCode = code])

CloseTaskStatusFirst(t, code, time) ==
    [t EXCEPT !.status = StatusOnClose(code), !.exitCode = code]

CloseTask(t, code, time) ==
    ExtractCommit([t EXCEPT !.status = StatusOnClose(code),
                            !.completedAt = Some(time),
                            !.exitCode = code])

\* the record as the 'error' handler leaves it
ErrorTaskNoStamp(t, q, time) ==
    AppendLog([t EXCEPT !.status = "failed"], ErrorChunk(q))

ErrorTask(t, q, time) ==
    AppendLog([t EXCEPT !.status = "failed", !.completedAt = Some(time)], ErrorChunk(q))

\* saveElementBead: append, keep the last BEAD_CAP, write (a write error is
\* caught and leaves the file as it was)
FirstN(s, n) == IF Len(s) > n THEN SubSeq(s, 1, n) ELSE s

LastN(s, n) == IF Len(s) > n THEN SubSeq(s, Len(s) - n + 1, Len(s)) ELSE s

saveElementBeadOnSuccess(b, el, taskId, time, success, ok) ==
    IF ok /\ success
    THEN [b EXCEPT ![el] = LastN(Append(@, [taskId |-> taskId, timestamp |-> time,
                                             success |-> success]), BEAD_CAP)]
    ELSE b

saveElementBeadStale(b, el, taskId, time, success, ok) ==
    LET old == IF Len(b[el]) > 0 /\ b[el][Len(b[el])].taskId > 0
               THEN SubSeq(b[el], 1, Len(b[el]) - 1) ELSE b[el] IN
    IF ok
    THEN [b EXCEPT ![el] = LastN(Append(old, [taskId |-> taskId, timestamp |-> time,
                                              success |-> success]), BEAD_CAP)]
    ELSE b

saveElementBead(b, el, taskId, time, success, ok) ==
    IF ok
    THEN [b EXCEPT ![el] = LastN(Append(@, [taskId |-> taskId, timestamp |-> time,
                                             success |-> success]), BEAD_CAP)]
    ELSE b

\* messages on the requester's socket
TaskStarted  == [type |-> "task_started", success |-> Null]
Ack(success) == [type |-> "ack", success |-> Some(success)]

NoProc == [st |-> "none", code |-> Null, out |-> << >>]

\* ---------------------------------------------------------- the observers
\* A connection is a record: its readyState ("open" is 1, "closing" 2,
\* "closed" 3; a closed connection is no longer in wss.clients), the
\* messages that send() has written to it, and the requests whose message
\* handler closed over it as `ws`.
NewClient(first) == [state |-> "open", inbox |-> << first >>, reqs |-> {}]

\* messages as the connection carries them
Ready == [type |-> "ready"]
TaskUpdate(t) == [type |-> "task_update", task |-> StringifyTask(t)]
StartedMsg(id) == [type |-> "task_started", taskId |-> id]
AckMsg(success, id) == [type |-> "ack", success |-> success, taskId |-> id]

\* ws.send(message): written when the connection is open, dropped otherwise
wsSend(c, msg) ==
    IF c.state = "open" THEN [c EXCEPT !.inbox = Append(@, msg)] ELSE c

\* broadcastTaskUpdate: wss.clients.forEach with the readyState === 1 guard
broadcastUnguarded(cl, t) ==
    [c \in DOMAIN cl |-> [cl[c] EXCEPT !.inbox = Append(@, TaskUpdate(t))]]

broadcastTaskUpdate(cl, t) ==
    [c \in DOMAIN cl |->
        IF cl[c].state = "open"
        THEN [cl[c] EXCEPT !.inbox = Append(@, TaskUpdate(t))]
        ELSE cl[c]]

\* the `ws` of a message handler: connection c, or 0 for a requester whose
\* connection is not followed
Bind(cl, c, q) == IF c = 0 THEN cl ELSE [cl EXCEPT ![c].reqs = @ \cup {q}]

RequesterOf(cl, q) ==
    IF \E c \in DOMAIN cl : q \in cl[c].reqs
    THEN CHOOSE c \in DOMAIN cl : q \in cl[c].reqs
    ELSE 0

SendTo(cl, c, msg) == IF c = 0 THEN cl ELSE [cl EXCEPT ![c] = wsSend(@, msg)]

\* the connections of a server process that has ended
Disconnected(cl) == [c \in DOMAIN cl |-> [cl[c] EXCEPT !.state = "closed"]]

\* the children of a server process that has ended: their events have no
\* handler any more
Orphaned(p) ==
    [q \in DOMAIN p |->
        [p[q] EXCEPT !.st = IF @ \in {"none", "closed"} THEN @ ELSE "lost"]]

RECURSIVE TotalChunks(_)
TotalChunks(p) == IF p = << >> THEN 0 ELSE Len(Head(p).out) + TotalChunks(Tail(p))

\* ------------------------------------------------------------ element keys
\* A string is the sequence of its UTF-16 code units.  An element descriptor
\* is a record that has the properties the page sent: tag always, id,
\* classes (a sequence of strings) and selector when present.

\* x || '' and x || []: an absent property and the empty string both give
\* the empty sequence
OrEmpty(el, k) == IF k \in DOMAIN el THEN el[k] ELSE << >>

\* the default comparison of Array.prototype.sort: by code units
StrLess(a, b) ==
    \E k \in 0..Len(a) :
        /\ k <= Len(b)
        /\ \A j \in 1..k : a[j] = b[j]
        /\ IF k = Len(a) THEN k < Len(b) ELSE k < Len(b) /\ a[k + 1] < b[k + 1]

\* Array.prototype.sort() without a comparator
Unsorted(s) == s

RECURSIVE SortStrings(_)
SortStrings(s) ==
    IF Len(s) = 0 THEN << >>
    ELSE LET x    == Head(s)
             rest == SortStrings(Tail(s))
             lower(y) == StrLess(y, x)
             other(y) == ~StrLess(y, x)
         IN  SelectSeq(rest, lower) \o << x >> \o SelectSeq(rest, other)

\* Array.prototype.join
RECURSIVE Join(_, _)
Join(parts, sep) ==
    IF Len(parts) = 0 THEN << >>
    ELSE IF Len(parts) = 1 THEN parts[1]
    ELSE parts[1] \o sep \o Join(Tail(parts), sep)

Bar == << 124 >>     \* '|'
Dot == << 46 >>      \* '.'

\* the string that is hashed; the classes are sorted first
ElementKeyString(el) ==
    Join(<< el.tag, OrEmpty(el, "id"),
            Join(SortStrings(OrEmpty(el, "classes")), Dot),
            OrEmpty(el, "selector") >>, Bar)

\* A 32-bit integer is the pair << high 16 bits, low 16 bits >> of its
\* two's complement pattern, so that no intermediate value leaves the
\* range of the model checker's integers.  ((hash << 5) - hash) + char is
\* exact in a double and `hash & hash` reduces it modulo 2^32, which is
\* the result of reducing after every operation.
Half == 65536

Shl5(x) == << (x[1] * 32 + (x[2] * 32) \div Half) % Half, (x[2] * 32) % Half >>

Sub32(x, y) ==
    LET lo == x[2] - y[2]
    IN  << (x[1] - y[1] - (IF lo < 0 THEN 1 ELSE 0)) % Half, lo % Half >>

Add32(x, c) ==
    LET lo == x[2] + c
    IN  << (x[1] + lo \div Half) % Half, lo % Half >>

Zero32 == << 0, 0 >>

\* the loop over the code units of key, from unit i on; each new value of
\* hash is bound by a set constructor so that it is computed once
RECURSIVE HashFrom(_, _, _)
HashFrom(hash, key, i) ==
    IF i > Len(key) THEN hash
    ELSE CHOOSE result \in {HashFrom(next, key, i + 1) :
                               next \in {Add32(Sub32(Shl5(hash), hash), key[i])}} : TRUE

IsNegative(x) == x[1] >= Half \div 2

\* Math.abs: the magnitude, as an unsigned 32-bit pattern (2^31 for -2^31)
Abs32(x) == IF IsNegative(x) THEN Sub32(Zero32, x) ELSE x

HexDigits == << "0", "1", "2", "3", "4", "5", "6", "7",
                "8", "9", "a", "b", "c", "d", "e", "f" >>

Hex4(n) == << HexDigits[(n \div 4096) + 1], HexDigits[((n \div 256) % 16) + 1],
              HexDigits[((n \div 16) % 16) + 1], HexDigits[(n % 16) + 1] >>

RECURSIVE StripZeros(_)
StripZeros(d) == IF Len(d) > 1 /\ Head(d) = "0" THEN StripZeros(Tail(d)) ELSE d

\* Number.prototype.toString(16) of a magnitude: no leading zeros
ToHex(x) == StripZeros(Hex4(x[1]) \o Hex4(x[2]))

\* String.prototype.slice(0, n)
SliceTo(s, n) == SubSeq(s, 1, IF Len(s) < n THEN Len(s) ELSE n)

\* 'el-' + Math.abs(hash).toString(16).slice(0, 8)
ElementIdOf(hash) == << "e", "l", "-" >> \o SliceTo(ToHex(Abs32(hash)), 8)

\* the descriptor as the call leaves it: sort() sorts element.classes in
\* place
SortedInPlace(el) ==
    IF "classes" \in DOMAIN el THEN [el EXCEPT !.classes = SortStrings(@)] ELSE el

\* generateElementId: the key it returns and its argument after the call
generateElementId(el) ==
    [ key     |-> ElementIdOf(HashFrom(Zero32, ElementKeyString(el), 1)),
      element |-> SortedInPlace(el) ]

\* descriptors a page can send
MaxClasses == 3

TagNames   == { << >>, << 100, 105, 118 >> }                      \* '', 'div'
ClassNames == { << 97 >>, << 97, 98 >>, << 98 >> }                \* 'a', 'ab', 'b'
IdNames    == { << 120 >> }                                       \* 'x'
Selectors  == { << 35, 120 >> }                                   \* '#x'

ClassLists == UNION {[1..n -> ClassNames] : n \in 0..MaxClasses}

Descriptors ==
    LET opt(base, k, S) == base \cup {(k :> v) @@ b : v \in S, b \in base}
        tags == {[tag |-> t] : t \in TagNames}
    IN  opt(opt(opt(tags, "id", IdNames), "classes", ClassLists), "selector", Selectors)

\* ------------------------------------------------------------ bead context
\* what loadElementBead returns when there is no usable bead file
NoBead == [null |-> TRUE]

\* !bead || !bead.changes || bead.changes.length === 0
NoHistory(bead) ==
    \/ "null" \in DOMAIN bead
    \/ "changes" \notin DOMAIN bead
    \/ Len(bead.changes) = 0

\* new Date(change.timestamp).toLocaleDateString(): the day, not the time
TicksPerDay == 2
DateOf(timestamp) == timestamp \div TicksPerDay

\* `- [${date}] ${status} "${change.feedback}"`
ChangeLine(change) ==
    [ kind     |-> "change",
      date     |-> DateOf(change.timestamp),
      status   |-> IF change.success THEN "ok" ELSE "failed",
      feedback |-> change.feedback ]

\* bead.changes.slice(-3)
RecentNewestFirst(changes) ==
    LET r == LastN(changes, 3) IN [i \in DOMAIN r |-> r[Len(r) + 1 - i]]

RecentChanges(changes) == LastN(changes, 3)

\* formatBeadContext: null, or the lines that are joined into the text
formatBeadContext(bead) ==
    IF NoHistory(bead) THEN Null
    ELSE LET recent == RecentChanges(bead.changes)
         IN  << [kind |-> "title"],
                [kind |-> "modified", times |-> Len(bead.changes)] >>
             \o [i \in DOMAIN recent |-> ChangeLine(recent[i])]
             \o << [kind |-> "blank"], [kind |-> "consider"] >>

\* loadElementBead for the bead files b: null when the element has no file
loadElementBeadAtStart(b, el) ==
    LET old == SelectSeq(b[el], LAMBDA r : r.taskId < 0) IN
    IF old = << >> THEN NoBead ELSE [id |-> el, changes |-> old]

loadElementBead(b, el) ==
    IF b[el] = << >> THEN NoBead ELSE [id |-> el, changes |-> b[el]]

\* the changes that the beadContext of a prompt lists (formatBeadContext
\* makes one line of each), or null
beadContext(bead) ==
    IF NoHistory(bead) THEN Null ELSE Some(RecentChanges(bead.changes))

\* beads that formatBeadContext can be given: none, a file without a
\* changes array, and histories of up to MaxChanges changes made at
\* successive times
MaxChanges == 5
Feedbacks  == {"make it blue", "add hover"}

Histories ==
    UNION {[1..n -> Feedbacks \X BOOLEAN] : n \in 0..MaxChanges}

BeadOf(h) ==
    [ id      |-> "el-a",
      changes |-> [i \in DOMAIN h |-> [taskId    |-> i,
                                       feedback  |-> h[i][1],
                                       timestamp |-> i,
                                       success   |-> h[i][2]]] ]

BeadInputs == {NoBead, [id |-> "el-a"]} \cup {BeadOf(h) : h \in Histories}

\* --------------------------------------------------------- commit patterns
\* logs that the commit patterns can be given: up to MaxPieces pieces of
\* agent output
MaxPieces == 3

CommitTexts == {"noise", "COMMIT_HASH: h", "COMMIT_HASH: g", "COMMIT_HASH: abc1234",
                "[def5678]", "commit 9abcdef"}

LogOf(texts) == [i \in DOMAIN texts |-> Chunk(1, i, "stdout", texts[i])]

CommitLogs == UNION {[1..n -> CommitTexts] : n \in 0..MaxPieces}

\* ---------------------------------------------------------- the MCP server
\* const TOKEN = generateToken()
TOKEN == "token"

\* url.searchParams.get('token') of a connection request: the server's
\* token, another one, or null when the URL has no token parameter
Tokens == {Some(TOKEN), Some("other"), Null}

\* token !== TOKEN
RejectedUnlessAbsent(token) == token # Some(TOKEN) /\ token # Null

Rejected(token) == token # Some(TOKEN)

\* the state after startWebSocketServer(): no connection, connectedClient
\* null (0), no get_visual_feedback handled, no tool called, no auto-apply
\* job running
McpStarted ==
    [conns |-> << >>, connectedClient |-> 0, handled |-> 0, tools |-> 0, jobs |-> 0]

\* a connection of the MCP server: the token of its request, readyState,
\* whether the message and close handlers were attached, what send() wrote
McpConn(token, state, handlers) ==
    [token |-> token, state |-> state, handlers |-> handlers, inbox |-> << >>]

\* if (connectedClient?.readyState === WebSocket.OPEN) connectedClient.send(...)
Notify(m, type) ==
    IF m.connectedClient # 0 /\ m.conns[m.connectedClient].state = "open"
    THEN [m EXCEPT !.conns[m.connectedClient].inbox = Append(@, [type |-> type])]
    ELSE m

\* ------------------------------------------------- the service worker
MaxSockets  == 3    \* WebSocket objects the service worker creates
MaxRequests == 2    \* SUBMIT_FEEDBACK messages the service worker receives

WS_PORT == 3847

\* values of message.projectPath and message.path
ProjectPaths == {Null, Some("/a"), Some("/b")}

\* x || fallback for an optional string
OrElse(x, fallback) == IF x = Null THEN fallback ELSE x[1]

\* the module-level state after the script has run; sockets are the
\* WebSocket objects created so far and requests the SUBMIT_FEEDBACK
\* messages handled so far (the id of a change is its number), out is what
\* has been written to the server
\* a socket: st is its readyState, with "closing-c" for close() before the
\* connection was established and "failed" for CLOSED after the error
\* event, the close event still to come; wait is the promise that connect()
\* awaits, with the caller that continues when it settles
WorkerStarted ==
    [ socket           |-> 0,
      connectionStatus |-> "disconnected",
      serverPort       |-> Null,
      projectPath      |-> "/tmp",
      sockets          |-> << >>,
      requests         |-> << >>,
      out              |-> << >> ]

\* socket?.readyState === WebSocket.OPEN
IsOpen(e) == e.socket # 0 /\ e.sockets[e.socket].st = "open"

\* socket.close()
close(sock) ==
    CASE sock.st = "connecting" -> [sock EXCEPT !.st = "closing-c"]
      [] sock.st = "open"       -> [sock EXCEPT !.st = "closing"]
      [] OTHER                  -> sock

disconnect(e) ==
    [e EXCEPT !.sockets = IF e.socket # 0
                          THEN [@ EXCEPT ![e.socket] = close(@)] ELSE @,
              !.socket = 0,
              !.connectionStatus = "disconnected",
              !.serverPort = Null]

\* connect(port) up to its await; caller is what runs when it returns
connect(e, port, caller) ==
    LET e1 == IF IsOpen(e) THEN disconnect(e) ELSE e IN
    [e1 EXCEPT !.connectionStatus = "connecting",
               !.serverPort = Some(port),
               !.sockets = Append(@, [st |-> "connecting", wait |-> Some(caller)]),
               !.socket = Len(e1.sockets) + 1]

\* the payload that submitFeedback writes: path is its second argument,
\* _projectPathArg
visualFeedback(e, id, path) == [id |-> id, projectPath |-> OrElse(Some(e.projectPath), "/tmp")]

\* submitFeedback from its second readyState test on
send(e, id, path) ==
    IF IsOpen(e) THEN [e EXCEPT !.out = Append(@, visualFeedback(e, id, path))] ELSE e

\* the code behind `await connect(..)` in the caller
resume(e, caller) ==
    IF caller.fn = "submitFeedback" THEN send(e, caller.id, caller.path) ELSE e

\* the promise of socket k settles: the catch block after a rejection,
\* then the caller
settle(e, k, resolved) ==
    IF e.sockets[k].wait = Null THEN e
    ELSE LET caller == e.sockets[k].wait[1]
             e1 == [e EXCEPT !.sockets[k].wait = Null]
             e2 == IF resolved THEN e1
                   ELSE [e1 EXCEPT !.connectionStatus = "disconnected", !.socket = 0]
         IN  resume(e2, caller)

\* case 'CONNECT'
WorkerConnect(port) ==
    /\ Len(ext.sockets) < MaxSockets
    /\ ext' = connect(ext, port, [fn |-> "handleMessage"])
    /\ UNCHANGED << server, mcp, page >>

\* case 'DISCONNECT'
WorkerDisconnect ==
    /\ ext' = disconnect(ext)
    /\ UNCHANGED << server, mcp, page >>

\* case 'SET_PROJECT_PATH'
WorkerSetProjectPath(path) ==
    /\ ext' = [ext EXCEPT !.projectPath = OrElse(path, "/tmp")]
    /\ UNCHANGED << server, mcp, page >>

\* case 'SUBMIT_FEEDBACK' with a change: submitFeedback sends at once on
\* an open socket, else reconnects to serverPort or to the port that the
\* discovery request finds (found), and sends when connect returns
WorkerSubmitFeedback(msgPath, found) ==
    LET id     == Len(ext.requests) + 1
        path   == OrElse(msgPath, ext.projectPath)
        e1     == [ext EXCEPT !.requests = Append(@, [projectPath |-> msgPath,
                                                      path |-> path])]
        caller == [fn |-> "submitFeedback", id |-> id, path |-> path]
    IN  /\ Len(ext.requests) < MaxRequests
        /\ IF IsOpen(e1) THEN ext' = send(e1, id, path)
           ELSE IF e1.serverPort # Null
                THEN /\ Len(ext.sockets) < MaxSockets
                     /\ ext' = connect(e1, e1.serverPort[1], caller)
                ELSE IF found
                     THEN /\ Len(ext.sockets) < MaxSockets
                          /\ ext' = connect(e1, WS_PORT, caller)
                     ELSE ext' = e1
        /\ UNCHANGED << server, mcp, page >>

\* the connection of socket k is established: onopen, then the promise
SocketOpen(k) ==
    /\ ext.sockets[k].st = "connecting"
    /\ ext' = settle([ext EXCEPT !.sockets[k].st = "open",
                                 !.connectionStatus = "connected"], k, TRUE)
    /\ UNCHANGED << server, mcp, page >>

\* the 5-second timer of connect() fires while the promise is pending
ConnectTimeout(k) ==
    /\ ext.sockets[k].wait # Null
    /\ ext' = settle(ext, k, FALSE)
    /\ UNCHANGED << server, mcp, page >>

\* the connection of socket k could not be established: onerror, then
\* the promise
SocketError(k) ==
    /\ ext.sockets[k].st \in {"connecting", "closing-c"}
    /\ ext' = settle([ext EXCEPT !.sockets[k].st = "failed",
                                 !.connectionStatus = "disconnected"], k, FALSE)
    /\ UNCHANGED << server, mcp, page >>

\* the close event of socket k: onclose
SocketClose(k) ==
    /\ ext.sockets[k].st \in {"open", "closing", "failed"}
    /\ ext' = [ext EXCEPT !.sockets[k].st = "closed",
                          !.connectionStatus = "disconnected",
                          !.socket = 0]
    /\ UNCHANGED << server, mcp, page >>

NextWorker ==
    \/ WorkerConnect(WS_PORT)
    \/ WorkerDisconnect
    \/ \E path \in ProjectPaths : WorkerSetProjectPath(path)
    \/ \E msgPath \in ProjectPaths, found \in BOOLEAN : WorkerSubmitFeedback(msgPath, found)
    \/ \E k \in DOMAIN ext.sockets : SocketOpen(k)
    \/ \E k \in DOMAIN ext.sockets : ConnectTimeout(k)
    \/ \E k \in DOMAIN ext.sockets : SocketError(k)
    \/ \E k \in DOMAIN ext.sockets : SocketClose(k)

\* ------------------------------------------------- the content script
MaxCompletions == 3    \* terminal TASK_UPDATE messages that the overlay handles

TaskIds == {"t1", "t2"}
Statuses == {"processing", "complete", "failed"}

\* pendingTask (null at first) and the setTimeout timers not yet fired; n
\* numbers the handled updates that started timers
PageLoaded == [pendingTask |-> Null, timers |-> {}, n |-> 0]

\* handleTaskSubmitted
handleTaskSubmitted(pg, taskId) ==
    [pg EXCEPT !.pendingTask = Some([taskId |-> taskId, status |-> "working",
                                     fading |-> FALSE])]

\* prev => prev ? { ...prev, status } : null
setStatus(prev, status) ==
    IF prev = Null THEN Null ELSE Some([prev[1] EXCEPT !.status = status])

\* handleTaskUpdate, the listener registered while pendingTask is set
handleTaskUpdate(pg, id, status) ==
    IF pg.pendingTask = Null \/ id # pg.pendingTask[1].taskId THEN pg
    ELSE CASE status = "complete" ->
                  [pg EXCEPT !.pendingTask = setStatus(@, "done"),
                             !.timers = @ \cup {[kind |-> "fade", delay |-> 1500, n |-> pg.n + 1],
                                                [kind |-> "remove", delay |-> 3000, n |-> pg.n + 1]},
                             !.n = @ + 1]
           [] status = "failed" ->
                  [pg EXCEPT !.pendingTask = setStatus(@, "error"),
                             !.timers = @ \cup {[kind |-> "remove", delay |-> 3000, n |-> pg.n + 1]},
                             !.n = @ + 1]
           [] OTHER -> pg

\* a timer is due before every timer started later with the same or a
\* longer delay, and after every timer started earlier with the same or a
\* shorter one
Due(pg, t) ==
    \A u \in pg.timers \ {t} : ~(u.n <= t.n /\ u.delay <= t.delay)

\* the callback of timer t
timerCallback(pg, t) ==
    [pg EXCEPT !.timers = @ \ {t},
               !.pendingTask = IF t.kind = "remove" \/ @ = Null THEN Null
                               ELSE Some([@[1] EXCEPT !.fading = TRUE])]

\* FloatingPanel calls onTaskSubmitted
PageTaskSubmitted(taskId) ==
    /\ page' = handleTaskSubmitted(page, taskId)
    /\ UNCHANGED << server, mcp, ext >>

\* a TASK_UPDATE message from the service worker
PageTaskUpdate(id, status) ==
    /\ page.n < MaxCompletions
    /\ page' = handleTaskUpdate(page, id, status)
    /\ UNCHANGED << server, mcp, ext >>

PageTimer(t) ==
    /\ Due(page, t)
    /\ page' = timerCallback(page, t)
    /\ UNCHANGED << server, mcp, ext >>

NextPage ==
    \/ \E taskId \in TaskIds : PageTaskSubmitted(taskId)
    \/ \E id \in TaskIds, status \in Statuses : PageTaskUpdate(id, status)
    \/ \E t \in page.timers : PageTimer(t)

\* ----------------------------------------------------------------- Init
\* the state after loadTasks() at start-up, when the registry file holds n
\* records of an earlier run (none of them has a process)
Loaded(n) ==
    /\ now = 0
    /\ heap = [r \in (1 - n)..0 |-> LoadedTask(r + n)]
    /\ tasks = [i \in 1..n |-> [id |-> i, ref |-> i - n]]
    /\ disk = [i \in 1..n |-> LoadedTask(i)]
    /\ beads = [e \in Elements |-> << >>]
    /\ proc = << >>
    /\ events = << >>
    /\ sent = << >>
    /\ up = TRUE
    /\ clients = << >>
    /\ mcp = McpStarted
    /\ ext = WorkerStarted
    /\ page = PageLoaded

\* no helper function is being applied
NoCall == [fn |-> "none"]

\* first start: there is no registry file
Init == Loaded(0) /\ call = NoCall

\* start with a registry that is full
InitFull == Loaded(MAX_TASKS) /\ call = NoCall

\* the bead file of an element that earlier runs have changed n times
OldBead(n) == [i \in 1..n |-> [taskId |-> -i, timestamp |-> 0, success |-> i % 2 = 0]]

\* first start of the server in a project whose bead of el-a is one record
\* short of the cap
InitBeads ==
    /\ now = 0
    /\ heap = << >>
    /\ tasks = << >>
    /\ disk = << >>
    /\ beads = [e \in Elements |-> IF e = "el-a" THEN OldBead(BEAD_CAP - 1) ELSE << >>]
    /\ proc = << >>
    /\ events = << >>
    /\ sent = << >>
    /\ up = TRUE
    /\ call = NoCall
    /\ clients = << >>
    /\ mcp = McpStarted
    /\ ext = WorkerStarted
    /\ page = PageLoaded

\* --------------------------------------------------------------- actions
Tick ==
    /\ now < MaxTime
    /\ now' = now + 1
    /\ UNCHANGED << heap, tasks, disk, beads, proc, events, sent, up, call, clients, mcp, extension >>

\* ws.on('message') for a visual_feedback message.  path tells how far the
\* handler gets:
\*   "reject"    an exception before addTask (unparsable data, no element)
\*   "abort"     an exception after addTask and before the handlers are
\*               attached (loadElementBead, buildPrompt or spawn throws)
\*   "spawned"   spawn returns a running child
\*   "spawnfail" spawn returns a child whose 'error' event is pending
SubmitFrom(c, id, el, url, path, ok) ==
    LET q == Len(proc) + 1 IN
    /\ up
    /\ c = 0 \/ (c \in DOMAIN clients /\ clients[c].state = "open")
    /\ Len(proc) < MaxSubmit
    /\ events' = Append(events, << >>)
    /\ UNCHANGED << now, beads, up, call, mcp, extension >>
    /\ IF path = "reject"
       THEN /\ ok
            /\ proc' = Append(proc, NoProc)
            /\ sent' = Append(sent, << Ack(FALSE) >>)
            /\ clients' = SendTo(clients, c, AckMsg(FALSE, Null))
            /\ UNCHANGED << heap, tasks, disk >>
       ELSE /\ heap' = (q :> NewTask(id, el, url, now)) @@ heap
            /\ tasks' = addTask(tasks, id, q)
            /\ disk' = saveTasks(tasks', heap', disk, ok)
            /\ proc' = Append(proc,
                   CASE path = "abort"     -> NoProc
                     [] path = "spawned"   ->
                            [st |-> "running", code |-> Null, out |-> << >>,
                             beadContext |-> beadContext(loadElementBead(beads, el))]
                     [] path = "spawnfail" ->
                            [st |-> "spawnfail", code |-> SpawnErrCode, out |-> << >>,
                             beadContext |-> beadContext(loadElementBead(beads, el))])
            /\ sent' = Append(sent,
                   IF path = "abort" THEN << Ack(FALSE) >> ELSE << TaskStarted >>)
            /\ clients' = SendTo(broadcastTaskUpdate(Bind(clients, c, q), heap'[q]), c,
                                 IF path = "abort" THEN AckMsg(FALSE, Null)
                                 ELSE StartedMsg(Some(id)))

\* the same for a requester whose connection is not followed
Submit(id, el, url, path, ok) == SubmitFrom(0, id, el, url, path, ok)

\* the data handlers: only the object the handler closed over changes
ChildData(q, stream, text) ==
    LET c == Chunk(q, Len(proc[q].out) + 1, stream, text) IN
    /\ up
    /\ proc[q].st \in {"running", "exited"}
    /\ TotalChunks(proc) < MaxChunks
    /\ proc' = [proc EXCEPT ![q].out = Append(@, c)]
    /\ events' = [events EXCEPT ![q] = Append(@, stream)]
    /\ heap' = [heap EXCEPT ![LogTarget(q)] = AppendLog(@, c)]
    /\ UNCHANGED << now, tasks, disk, beads, sent, up, call, clients, mcp, extension >>

ChildStdoutData(q, text) == ChildData(q, "stdout", text)
ChildStderrData(q, text) == ChildData(q, "stderr", text)

\* the agent process ends (environment)
ProcExit(q, code) ==
    /\ proc[q].st = "running"
    /\ proc' = [proc EXCEPT ![q].st = "exited", ![q].code = code]
    /\ UNCHANGED << now, heap, tasks, disk, beads, events, sent, up, call, clients, mcp, extension >>

\* child.on('error')
ChildError(q, ok) ==
    /\ up
    /\ proc[q].st = "spawnfail"
    /\ proc' = [proc EXCEPT ![q].st = "errored"]
    /\ events' = [events EXCEPT ![q] = Append(@, "error")]
    /\ heap' = [heap EXCEPT ![q] = ErrorTask(@, q, now)]
    /\ disk' = saveTasks(tasks, heap', disk, ok)
    /\ sent' = [sent EXCEPT ![q] = Append(@, Ack(FALSE))]
    /\ clients' = SendTo(broadcastTaskUpdate(clients, heap'[q]), RequesterOf(clients, q),
                         AckMsg(FALSE, Some(heap[q].id)))
    /\ UNCHANGED << now, tasks, beads, up, call, mcp, extension >>

\* child.on('close'): emitted once the process has ended and its streams
\* are closed, and also after 'error' when the spawn failed
\* bead tells how saveElementBead ends:
\*   "saved"     the bead file is rewritten
\*   "writefail" writeFileSync throws; the exception is caught and logged
\*   "throw"     an exception outside the try block (mkdirSync in
\*               ensureBeadsDir, or changes.push on a bead file that parses
\*               but has no changes array); nothing catches it, the rest of
\*               the handler does not run and the server process ends
ChildClose(q, bead, ok) ==
    LET code == proc[q].code IN
    /\ up
    /\ proc[q].st \in {"exited", "errored"}
    /\ events' = [events EXCEPT ![q] = Append(@, "close")]
    /\ UNCHANGED << now, call, mcp, extension >>
    /\ IF bead = "throw"
       THEN /\ up' = FALSE
            /\ heap' = << >>
            /\ tasks' = << >>
            /\ proc' = Orphaned([proc EXCEPT ![q].st = "closed"])
            /\ clients' = Disconnected(clients)
            /\ UNCHANGED << disk, beads, sent >>
       ELSE /\ proc' = [proc EXCEPT ![q].st = "closed"]
            /\ heap' = [heap EXCEPT ![q] = CloseTask(@, code, now)]
            /\ beads' = saveElementBead(beads, heap[q].element, heap[q].id, now,
                                        code = Some(0), bead = "saved")
            /\ disk' = saveTasks(tasks, heap', disk, ok)
            /\ sent' = [sent EXCEPT ![q] = Append(@, Ack(code = Some(0)))]
            /\ clients' = SendTo(broadcastTaskUpdate(clients, heap'[q]),
                                 RequesterOf(clients, q),
                                 AckMsg(code = Some(0), Some(heap[q].id)))
            /\ UNCHANGED << tasks, up >>

\* wss.on('connection'): the handlers are attached and 'ready' is sent
Connect ==
    /\ up
    /\ Len(clients) < MaxConnections
    /\ clients' = Append(clients, NewClient(Ready))
    /\ UNCHANGED << now, heap, tasks, disk, beads, proc, events, sent, up, call, mcp, extension >>

\* a connection starts its closing handshake (environment)
ClientClosing(c) ==
    /\ clients[c].state = "open"
    /\ clients' = [clients EXCEPT ![c].state = "closing"]
    /\ UNCHANGED << now, heap, tasks, disk, beads, proc, events, sent, up, call, mcp, extension >>

\* ws.on('close'): the connection is gone and leaves wss.clients
ClientClosed(c) ==
    /\ clients[c].state \in {"open", "closing"}
    /\ clients' = [clients EXCEPT ![c].state = "closed"]
    /\ UNCHANGED << now, heap, tasks, disk, beads, proc, events, sent, up, call, mcp, extension >>

\* Array.prototype.reverse
Reverse(s) == [i \in DOMAIN s |-> s[Len(s) + 1 - i]]

\* Array.from(tasks.values()).reverse(), as JSON.stringify sends it
listTasks(m, h) == Stringify(Reverse(Snapshot(m, h)))

\* tasks.get(id) of GET /tasks/<id>/log: the log, or 404 for an id that is
\* not a key of the Map
taskLog(m, h, id) ==
    IF MapHas(m, id)
    THEN [code |-> 200,
          log  |-> h[m[CHOOSE i \in DOMAIN m : m[i].id = id].ref].log]
    ELSE [code |-> 404]

\* ws.on('message') for a get_tasks message
GetTasks ==
    /\ up
    /\ call' = [fn |-> "get_tasks", ret |-> listTasks(tasks, heap)]
    /\ UNCHANGED << now, heap, tasks, disk, beads, proc, events, sent, up, clients, mcp, extension >>

\* the HTTP server: GET /tasks
HttpGetTasks ==
    /\ up
    /\ call' = [fn |-> "GET /tasks", ret |-> listTasks(tasks, heap)]
    /\ UNCHANGED << now, heap, tasks, disk, beads, proc, events, sent, up, clients, mcp, extension >>

\* the HTTP server: GET /tasks/<id>/log
HttpGetTaskLog(id) ==
    /\ up
    /\ call' = [fn |-> "GET /tasks/<id>/log", id |-> id, ret |-> taskLog(tasks, heap, id)]
    /\ UNCHANGED << now, heap, tasks, disk, beads, proc, events, sent, up, clients, mcp, extension >>

\* wss.on('connection') of the MCP server: a request whose token is not
\* TOKEN is closed (readyState becomes CLOSING) and the handler returns
McpConnection(token) ==
    /\ Len(mcp.conns) < MaxConnections
    /\ mcp' = IF Rejected(token)
              THEN [mcp EXCEPT !.conns = Append(@, McpConn(token, "closing", FALSE))]
              ELSE [mcp EXCEPT !.conns = Append(@, McpConn(token, "open", TRUE)),
                               !.connectedClient = Len(mcp.conns) + 1]
    /\ UNCHANGED << server, extension >>

\* ws.on('message') and handleExtensionMessage for get_visual_feedback: the
\* change is queued, the sender is acknowledged and auto-apply is scheduled
McpMessage(c) ==
    /\ mcp.conns[c].handlers
    /\ mcp.conns[c].state = "open"
    /\ mcp.handled < MaxFeedback
    /\ mcp' = [mcp EXCEPT !.conns[c].inbox = Append(@, [type |-> "ack"]),
                          !.handled = @ + 1,
                          !.jobs = @ + 1]
    /\ UNCHANGED << server, extension >>

\* the callback of exec in autoApplyChanges
McpAutoApplyDone(ok) ==
    /\ mcp.jobs > 0
    /\ mcp' = Notify([mcp EXCEPT !.jobs = @ - 1],
                     IF ok THEN "AUTO_APPLY_SUCCESS" ELSE "AUTO_APPLY_FAILED")
    /\ UNCHANGED << server, extension >>

\* the mark_change_applied tool; found is what changeQueue.markApplied returns
McpMarkApplied(found) ==
    /\ mcp.tools < MaxFeedback
    /\ mcp' = IF found THEN Notify([mcp EXCEPT !.tools = @ + 1], "CHANGE_APPLIED")
              ELSE [mcp EXCEPT !.tools = @ + 1]
    /\ UNCHANGED << server, extension >>

\* the mark_change_failed tool
McpMarkFailed ==
    /\ mcp.tools < MaxFeedback
    /\ mcp' = Notify([mcp EXCEPT !.tools = @ + 1], "CHANGE_FAILED")
    /\ UNCHANGED << server, extension >>

\* a connection of the MCP server goes on to close (the close handshake
\* that the peer starts, or that ws.close has started, proceeds)
McpClosing(c) ==
    /\ mcp.conns[c].state = "open"
    /\ mcp' = [mcp EXCEPT !.conns[c].state = "closing"]
    /\ UNCHANGED << server, extension >>

\* the connection is closed; ws.on('close'), where it was attached, clears
\* connectedClient if it still is this connection
McpClosed(c) ==
    /\ mcp.conns[c].state \in {"open", "closing"}
    /\ mcp' = [mcp EXCEPT !.conns[c].state = "closed",
                          !.connectedClient =
                              IF mcp.conns[c].handlers /\ @ = c THEN 0 ELSE @]
    /\ UNCHANGED << server, extension >>

\* the server process ends (killed, or the machine stops): its memory and
\* its handlers are gone, the files stay
Stop ==
    /\ up
    /\ up' = FALSE
    /\ heap' = << >>
    /\ tasks' = << >>
    /\ proc' = Orphaned(proc)
    /\ clients' = Disconnected(clients)
    /\ UNCHANGED << now, disk, beads, events, sent, call, mcp, extension >>

\* the server is started again: loadTasks() fills the empty Map from the file
Start ==
    /\ ~up
    /\ up' = TRUE
    /\ heap' = LoadedHeap(disk)
    /\ tasks' = loadTasks(<< >>, disk, 1)
    /\ UNCHANGED << now, disk, beads, proc, events, sent, call, clients, mcp, extension >>

Paths == {"reject", "abort", "spawned", "spawnfail"}

\* one step of the server or of its environment, with the request's element
\* drawn from E, its page URL from U, the text of an output chunk from T,
\* the outcome of a registry write from W and of a bead update from B
StepIn(E, T, U, W, B) ==
    \/ Tick
    \/ \E id \in SubmitIds, el \in E, url \in U, path \in Paths, ok \in W :
           Submit(id, el, url, path, ok)
    \/ \E q \in DOMAIN proc, text \in T : ChildStdoutData(q, text)
    \/ \E q \in DOMAIN proc, text \in T : ChildStderrData(q, text)
    \/ \E q \in DOMAIN proc, code \in ExitCodes : ProcExit(q, code)
    \/ \E q \in DOMAIN proc, ok \in W : ChildError(q, ok)
    \/ \E q \in DOMAIN proc, bead \in B, ok \in W : ChildClose(q, bead, ok)

\* the same with a page URL in every request and a healthy file system
Step(E, T) == StepIn(E, T, {PageUrl}, WriteOutcomes, BeadSaved)

Next == Step(Elements, Texts)

\* the same steps for one element and output that matches no pattern
NextPlain == Step({"el-a"}, {"noise"})

Spec == Init /\ [][Next]_vars

\* a run that starts with a full registry
SpecFull == InitFull /\ [][NextPlain]_vars

\* the event loop delivers every pending event of a child
Fairness ==
    \A q \in 1..MaxSubmit :
        /\ WF_vars(q \in DOMAIN proc /\ \E ok \in WriteOutcomes : ChildError(q, ok))
        /\ WF_vars(q \in DOMAIN proc
                      /\ \E ok \in WriteOutcomes : ChildClose(q, "saved", ok))

FairSpec == Init /\ [][NextPlain]_vars /\ Fairness

\* fair delivery with requests for both elements
FairSpecBeads == Init /\ [][Step(Elements, {"noise"})]_vars /\ Fairness

\* generateElementId applied to one descriptor
InitElementId ==
    /\ Loaded(0)
    /\ \E el \in Descriptors : call = [fn |-> "generateElementId", arg |-> el]

CallGenerateElementId ==
    /\ call.fn = "generateElementId"
    /\ "ret" \notin DOMAIN call
    /\ call' = [fn    |-> "generateElementId",
                arg   |-> call.arg,
                after |-> generateElementId(call.arg).element,
                ret   |-> generateElementId(call.arg).key]
    /\ UNCHANGED << now, heap, tasks, disk, beads, proc, events, sent, up, clients, mcp, extension >>

SpecElementId == InitElementId /\ [][CallGenerateElementId]_vars

\* formatBeadContext applied to one bead
InitFormat ==
    /\ Loaded(0)
    /\ \E bead \in BeadInputs : call = [fn |-> "formatBeadContext", arg |-> bead]

CallFormatBeadContext ==
    /\ call.fn = "formatBeadContext"
    /\ "ret" \notin DOMAIN call
    /\ call' = [fn  |-> "formatBeadContext",
                arg |-> call.arg,
                ret |-> formatBeadContext(call.arg)]
    /\ UNCHANGED << now, heap, tasks, disk, beads, proc, events, sent, up, clients, mcp, extension >>

SpecFormat == InitFormat /\ [][CallFormatBeadContext]_vars

\* the commit patterns applied to one log
InitCommit ==
    /\ Loaded(0)
    /\ \E texts \in CommitLogs : call = [fn |-> "commitMatch", arg |-> LogOf(texts)]

CallCommitMatch ==
    /\ call.fn = "commitMatch"
    /\ "ret" \notin DOMAIN call
    /\ call' = [fn  |-> "commitMatch",
                arg |-> call.arg,
                ret |-> CommitMatch(call.arg)]
    /\ UNCHANGED << now, heap, tasks, disk, beads, proc, events, sent, up, clients, mcp, extension >>

SpecCommit == InitCommit /\ [][CallCommitMatch]_vars

\* ------------------------------------------------------ child environment
\* the environment of the server process: the variables the spawn options
\* name and two that they do not name; Null is a variable that is not set
HostEnvs ==
    [ HOME              : {Null, Some("/home/u"), Some("/srv/x")},
      PATH              : {Some("/usr/bin"), Some("/evil:/usr/bin")},
      USER              : {Null, Some("u")},
      TERM              : {Some("dumb"), Some("xterm")},
      ANTHROPIC_API_KEY : {Null, Some("key")},
      AWS_SECRET        : {Null, Some("secret")},
      NODE_OPTIONS      : {Null, Some("--inspect")} ]

\* os.homedir(): $HOME when it is set, else the home of the password entry
PasswdHome == "/home/u"
homedir(host) == IF host.HOME = Null THEN PasswdHome ELSE host.HOME[1]

\* the env option of spawn; a property whose value is undefined is not
\* passed on to the child
spawnEnvInherit(host) ==
    [host EXCEPT !.PATH = Some(<< "/usr/local/bin:/usr/bin:/bin:/opt/homebrew/bin:",
                                  homedir(host), "/.local/bin" >>)]

spawnEnv(host) ==
    [ HOME              |-> Some(homedir(host)),
      PATH              |-> Some(<< "/usr/local/bin:/usr/bin:/bin:/opt/homebrew/bin:",
                                    homedir(host), "/.local/bin" >>),
      USER              |-> host.USER,
      TERM              |-> Some("xterm-256color"),
      ANTHROPIC_API_KEY |-> host.ANTHROPIC_API_KEY ]

\* the spawn options built in two runs of the server, on two hosts
InitEnv ==
    /\ Loaded(0)
    /\ \E h1, h2 \in HostEnvs : call = [fn |-> "spawnEnv", arg |-> << h1, h2 >>]

CallSpawnEnv ==
    /\ call.fn = "spawnEnv"
    /\ "ret" \notin DOMAIN call
    /\ call' = [fn  |-> "spawnEnv",
                arg |-> call.arg,
                ret |-> << spawnEnv(call.arg[1]), spawnEnv(call.arg[2]) >>]
    /\ UNCHANGED << now, heap, tasks, disk, beads, proc, events, sent, up, clients, mcp, extension >>

SpecEnv == InitEnv /\ [][CallSpawnEnv]_vars

\* a run in a project that has bead history
SpecBeads == InitBeads /\ [][NextPlain]_vars

\* a file system that can fail: registry writes and bead updates
SpecFaulty ==
    Init /\ [][StepIn({"el-a"}, {"noise"}, {PageUrl}, FaultyWrites, BeadOutcomes)]_vars

\* a server that can be stopped and started again at any point; requests
\* may lack a page URL
NextRestart ==
    \/ StepIn({"el-a"}, {"noise"}, PageUrls, WriteOutcomes, BeadSaved)
    \/ Stop
    \/ Start

SpecRestart == Init /\ [][NextRestart]_vars

\* agent output that names a commit and the repository's remote
RemoteTexts == {"COMMIT_HASH: h", "git@github.com:o/r.git", "github.com/o/r.js"}

SpecRemote == Init /\ [][Step({"el-a"}, RemoteTexts)]_vars

\* a registry that holds two records of an earlier run
InitReads == Loaded(2) /\ call = NoCall

\* the ids a log request can name: resident ones and one that is not
LogIds == SubmitIds \cup {2, 3}

\* the server with clients that read the store
NextReads ==
    \/ Step({"el-a"}, {"COMMIT_HASH: h"})
    \/ GetTasks
    \/ HttpGetTasks
    \/ \E id \in LogIds : HttpGetTaskLog(id)

SpecReads == InitReads /\ [][NextReads]_vars

\* the server with connections that come and go; every request arrives on
\* an open connection
NextObservers ==
    \/ \E c \in DOMAIN clients, id \in SubmitIds, path \in Paths :
           SubmitFrom(c, id, "el-a", PageUrl, path, TRUE)
    \/ \E q \in DOMAIN proc : ChildStdoutData(q, "noise")
    \/ \E q \in DOMAIN proc, code \in ExitCodes : ProcExit(q, code)
    \/ \E q \in DOMAIN proc : ChildError(q, TRUE)
    \/ \E q \in DOMAIN proc : ChildClose(q, "saved", TRUE)
    \/ Connect
    \/ \E c \in DOMAIN clients : ClientClosing(c)
    \/ \E c \in DOMAIN clients : ClientClosed(c)

SpecObservers == Init /\ [][NextObservers]_vars

\* a server whose registry is full, its observers, and agent processes that
\* are spawned or fail to spawn, write to stdout and exit with code 0
NextEvict ==
    \/ \E c \in DOMAIN clients, id \in SubmitIds, path \in {"spawned", "spawnfail"} :
           SubmitFrom(c, id, "el-a", PageUrl, path, TRUE)
    \/ \E q \in DOMAIN proc : ChildStdoutData(q, "noise")
    \/ \E q \in DOMAIN proc : ProcExit(q, Some(0))
    \/ \E q \in DOMAIN proc : ChildError(q, TRUE)
    \/ \E q \in DOMAIN proc : ChildClose(q, "saved", TRUE)
    \/ Connect
    \/ \E c \in DOMAIN clients : ClientClosed(c)

SpecEvict == InitFull /\ [][NextEvict]_vars

\* the MCP server and its environment
NextMcp ==
    \/ \E token \in Tokens : McpConnection(token)
    \/ \E c \in DOMAIN mcp.conns : McpMessage(c)
    \/ \E ok \in BOOLEAN : McpAutoApplyDone(ok)
    \/ \E found \in BOOLEAN : McpMarkApplied(found)
    \/ McpMarkFailed
    \/ \E c \in DOMAIN mcp.conns : McpClosing(c)
    \/ \E c \in DOMAIN mcp.conns : McpClosed(c)

SpecMcp == Init /\ [][NextMcp]_vars

\* the service worker of the extension and its sockets
SpecWorker == Init /\ [][NextWorker]_vars

\* the content script of one tab
SpecPage == Init /\ [][NextPage]_vars

\* ============================================================== properties
Terminal(st) == st \in {"complete", "failed"}

\* the requests for which a task record was created
Accepted == {q \in DOMAIN proc : q \in DOMAIN heap}

IsPrefix(a, b) == Len(a) <= Len(b) /\ SubSeq(b, 1, Len(a)) = a

IsAck(m) == m.type = "ack"
NumAcks(q) == Len(SelectSeq(sent[q], IsAck))

Has(seq, x) == \E i \in DOMAIN seq : seq[i] = x

C2_TerminalImmutable ==
    [][\A r \in DOMAIN heap :
           Terminal(heap[r].status) => heap'[r] = heap[r]]_vars

\* C3: the requester of every visual_feedback request is sent exactly one
\* terminal acknowledgment: never two, and one once the request's handlers
\* have all run.
C3_ExactlyOneAck ==
    \A q \in DOMAIN sent :
        /\ NumAcks(q) <= 1
        /\ proc[q].st \in {"none", "closed"} => NumAcks(q) = 1

\* C4: when the spawn fails the error handler runs exactly once, the close
\* handler never runs, and the task is failed with the fault in its log.
C4_ErrorWithoutClose ==
    \A q \in Accepted :
        Has(events[q], "error") =>
            /\ events[q] = << "error" >>
            /\ heap[q].status = "failed"
            /\ Has(heap[q].log, ErrorChunk(q))

\* C5 as stated: completedAt and exitCode are both set exactly when the
\* status is not processing.
C5_BothSetIffNotProcessing ==
    \A r \in DOMAIN heap :
        IF heap[r].status = "processing"
        THEN heap[r].completedAt = Null /\ heap[r].exitCode = Null
        ELSE heap[r].completedAt # Null /\ heap[r].exitCode # Null

\* C5 amended: completedAt is set exactly when the status is not processing,
\* and exitCode is null while the status is processing.
C5_CompletedAtIffNotProcessing ==
    \A r \in DOMAIN heap :
        /\ (heap[r].completedAt # Null) <=> (heap[r].status # "processing")
        /\ heap[r].status = "processing" => heap[r].exitCode = Null

C5_Witness ==
    \E q \in Accepted :
        /\ events[q] = << "error" >>
        /\ heap[q].status = "failed"
        /\ heap[q].completedAt # Null
        /\ heap[q].exitCode = Null

\* C6: after the close handler the status is complete exactly when the
\* process's exit code is 0, failed for every other code (nonzero or null),
\* and the record's exitCode is the code of the close event.
C6_StatusFromExitCode ==
    \A q \in Accepted :
        proc[q].st = "closed" =>
            /\ (heap[q].status = "complete") <=> (proc[q].code = Some(0))
            /\ (heap[q].status = "failed") <=> (proc[q].code # Some(0))
            /\ heap[q].exitCode = proc[q].code

C6_Witness ==
    \E q1, q2 \in Accepted :
        /\ proc[q1].st = "closed" /\ proc[q1].code = Null /\ heap[q1].status = "failed"
        /\ proc[q2].st = "closed" /\ proc[q2].code = Some(1) /\ heap[q2].exitCode = Some(1)

\* C7: every entry of a task's log was emitted by that task's own process
\* (or is its own spawn-error text).
C7_LogOwnChunksOnly ==
    \A r \in DOMAIN heap :
        \A i \in DOMAIN heap[r].log :
            /\ heap[r].log[i].pid = r
            /\ heap[r].log[i] = ErrorChunk(r) \/ Has(proc[r].out, heap[r].log[i])

C7_Witness ==
    /\ Len(proc) >= 2
    /\ proc[1].st = "running" /\ proc[2].st = "running"
    /\ heap[1].id = heap[2].id
    /\ Len(heap[1].log) = 1 /\ Len(heap[2].log) = 1

IsData(c) == c.stream \in Streams

\* C8: a task's log only grows at its end, and its output chunks appear in
\* it in the order in which the data events delivered them.
C8_LogAppendOnlyInOrder ==
    /\ [](\A q \in Accepted : SelectSeq(heap[q].log, IsData) = proc[q].out)
    /\ [][\A r \in DOMAIN heap : IsPrefix(heap[r].log, heap'[r].log)]_vars

C8_Witness ==
    \E q \in Accepted :
        /\ Len(heap[q].log) = 2
        /\ heap[q].log[1].stream = "stderr"
        /\ heap[q].log[2].stream = "stdout"

Refs(m) == {m[i].ref : i \in DOMAIN m}
Ids(m) == {m[i].id : i \in DOMAIN m}
MinRef(m) == CHOOSE r \in Refs(m) : \A x \in Refs(m) : r <= x

\* C9: the store never holds more than MAX_TASKS records, and a submission
\* that pushes it over the cap removes the record that was inserted earliest.
C9_EvictsEarliestInserted ==
    /\ [](Len(tasks) <= MAX_TASKS)
    /\ [][(Len(tasks) = MAX_TASKS /\ Ids(tasks') # Ids(tasks))
              => /\ Len(tasks') = MAX_TASKS
                 /\ Refs(tasks) \ Refs(tasks') = {MinRef(tasks)}]_vars

\* C10: after every handler that changes a task record the registry file
\* equals the in-memory store.
C10_DiskEqualsStore == disk = Stringify(Snapshot(tasks, heap))

\* two task objects that no property read can tell apart
SameTask(a, b) == \A k \in DOMAIN a \cup DOMAIN b : Prop(a, k) = Prop(b, k)

C12_LoadedProcessingStays ==
    /\ [][(~up /\ up') =>
              \A i \in DOMAIN disk :
                  disk[i].status = "processing"
                      => heap'[tasks'[i].ref].status = "processing"]_vars
    /\ [][(up /\ up') =>
              \A r \in DOMAIN heap :
                  r <= 0 => r \in DOMAIN heap' /\ heap'[r] = heap[r]]_vars

C12_Witness ==
    /\ up
    /\ Len(proc) = 2
    /\ proc[1].st = "lost"
    /\ proc[2].st = "closed"
    /\ 0 \in DOMAIN heap /\ heap[0].status = "processing"
    /\ 2 \in DOMAIN heap /\ heap[2].status = "complete"
    /\ heap[2].id # heap[0].id

\* the step in which the close handler of request q runs
CloseStep(q) == proc[q].st # "closed" /\ proc'[q].st = "closed"

\* C13: every task that becomes complete or failed appends exactly one
\* change record to the bead of its element, with success true exactly when
\* it completed with exit code 0 (false after a nonzero exit and after a
\* spawn error): a terminal task's close handler eventually runs, it runs
\* once, it appends that record, and nothing else changes a bead.
C13_OneChangeRecordPerTask ==
    /\ \A q \in 1..MaxSubmit :
           (q \in Accepted /\ Terminal(heap[q].status))
               ~> (q \in DOMAIN proc /\ proc[q].st = "closed")
    /\ [][\A q \in DOMAIN proc :
              /\ proc[q].st = "closed" => proc'[q].st = "closed"
              /\ CloseStep(q) =>
                     /\ heap'[q].status = "complete" <=> proc[q].code = Some(0)
                     /\ beads' = [beads EXCEPT ![heap[q].element] =
                            Append(@, [taskId    |-> heap[q].id,
                                       timestamp |-> now,
                                       success   |-> heap'[q].status = "complete"])]]_vars
    /\ [][beads' # beads => \E q \in DOMAIN proc : CloseStep(q)]_vars

C13_Witness ==
    \E q1, q2 \in Accepted :
        /\ events[q1] = << "error", "close" >>
        /\ heap[q1].element = "el-a"
        /\ Len(beads["el-a"]) = 1 /\ ~beads["el-a"][1].success
        /\ proc[q2].st = "closed" /\ proc[q2].code = Some(0)
        /\ heap[q2].element = "el-b"
        /\ Len(beads["el-b"]) = 1 /\ beads["el-b"][1].success

\* C14: a storage fault never keeps a task whose process has ended from
\* reaching its terminal status and from being acknowledged: once the close
\* event of a request has been delivered, its task is complete or failed in
\* the running server and its requester has been sent an acknowledgment.
C14_StorageFaultsNeverBlock ==
    \A q \in DOMAIN proc :
        Has(events[q], "close") =>
            /\ up
            /\ q \in DOMAIN heap /\ Terminal(heap[q].status)
            /\ NumAcks(q) >= 1

\* the call saveElementBead(.., element e, ..) of a close handler
SavesBead(e) == \E q \in DOMAIN proc : CloseStep(q) /\ heap[q].element = e

\* C15: a bead never holds more than 10 change records, and every
\* saveElementBead call (and nothing else changes a bead) puts the new
\* record at the end, keeps the records the bead had in their order and
\* unmodified, and drops exactly the oldest one when there were 10 already.
C15_BeadKeepsLastTen ==
    /\ [](\A e \in Elements : Len(beads[e]) <= 10)
    /\ [][\A e \in Elements :
              (SavesBead(e) \/ beads'[e] # beads[e]) =>
                  /\ Len(beads'[e]) >= 1
                  /\ \E q \in DOMAIN proc :
                         /\ CloseStep(q)
                         /\ beads'[e][Len(beads'[e])].taskId = heap[q].id
                  /\ SubSeq(beads'[e], 1, Len(beads'[e]) - 1)
                         = IF Len(beads[e]) < 10 THEN beads[e] ELSE Tail(beads[e])]_vars

C15_Witness ==
    /\ Len(beads["el-a"]) = 10
    /\ beads["el-a"][1] = OldBead(2)[2]
    /\ beads["el-a"][9].taskId > 0
    /\ beads["el-a"][10].taskId > 0
\* generateElementId has returned
Returned == call.fn = "generateElementId" /\ "ret" \in DOMAIN call

PermutationOf(a, b) ==
    /\ Len(a) = Len(b)
    /\ \E p \in [DOMAIN a -> DOMAIN a] :
           /\ \A i, j \in DOMAIN a : p[i] = p[j] => i = j
           /\ \A i \in DOMAIN a : b[i] = a[p[i]]

\* the same properties with the same values, but for the order of classes
SameButClassOrder(d1, d2) ==
    /\ DOMAIN d1 = DOMAIN d2
    /\ "classes" \in DOMAIN d1
    /\ \A k \in DOMAIN d1 \ {"classes"} : d1[k] = d2[k]
    /\ PermutationOf(d1.classes, d2.classes)

\* C16: two descriptors with the same tag, id and selector whose class
\* lists are permutations of each other get the same key.
C16_KeyIgnoresClassOrder ==
    Returned =>
        \A d2 \in Descriptors :
            SameButClassOrder(call.arg, d2) => generateElementId(d2).key = call.ret

C16_Witness ==
    /\ Returned
    /\ "classes" \in DOMAIN call.arg
    /\ call.arg.classes = << << 98 >>, << 97, 98 >>, << 97 >> >>
    /\ call.arg.tag = << 100, 105, 118 >>
    /\ call.ret = << "e", "l", "-", "1", "4", "7", "6", "f", "e", "4", "0" >>

\* C17: a call of generateElementId leaves its descriptor argument as it
\* was, the order of its classes included.
C17_ArgumentUnchanged == Returned => call.after = call.arg

IsHexDigit(c) == \E i \in DOMAIN HexDigits : HexDigits[i] = c

\* C18: the key of every descriptor is 'el-' followed by hex digits, and
\* by the same number of them (8) whatever the hash is.
C18_FixedWidthKey ==
    Returned =>
        /\ Len(call.ret) = 3 + 8
        /\ SubSeq(call.ret, 1, 3) = << "e", "l", "-" >>
        /\ \A i \in 4..Len(call.ret) : IsHexDigit(call.ret[i])

IsChangeLine(line) == line.kind = "change"

\* C19: formatBeadContext returns null for a missing bead and for a bead
\* without changes; for a bead with n >= 1 changes the change lines of the
\* result are those of the last min(n, 3) changes, one each, oldest first.
C19_ContextShowsLastThree ==
    (call.fn = "formatBeadContext" /\ "ret" \in DOMAIN call) =>
        IF "changes" \notin DOMAIN call.arg \/ Len(call.arg.changes) = 0
        THEN call.ret = Null
        ELSE LET n    == Len(call.arg.changes)
                 k    == IF n < 3 THEN n ELSE 3
                 body == SelectSeq(call.ret, IsChangeLine)
             IN  /\ Len(body) = k
                 /\ Len(call.ret) = k + 4
                 /\ \A i \in 1..k :
                        /\ body[i].feedback = call.arg.changes[n - k + i].feedback
                        /\ body[i].date = DateOf(call.arg.changes[n - k + i].timestamp)
                        /\ (body[i].status = "ok") <=> call.arg.changes[n - k + i].success

C19_Witness ==
    /\ call.fn = "formatBeadContext"
    /\ "ret" \in DOMAIN call
    /\ "changes" \in DOMAIN call.arg
    /\ Len(call.arg.changes) = 5
    /\ call.arg.changes[2].feedback = "make it blue"
    /\ call.arg.changes[3].feedback = "add hover"
    /\ Len(call.ret) = 7
    /\ call.ret[3].feedback = "add hover" /\ call.ret[3].date = 1
    /\ call.ret[5].status = "failed" /\ call.ret[5].date = 2

\* the positions of the log at which pattern k matches
Hits(k, log) == {i \in DOMAIN log : PatternCapture(k, log[i].text) # Null}

\* C20: the extracted hash is the leftmost capture of the first of the
\* three patterns, in their fixed order, that matches anywhere in the log,
\* wherever the later patterns match; it is null when none matches.
C20_FirstPatternWins ==
    (call.fn = "commitMatch" /\ "ret" \in DOMAIN call) =>
        /\ (\A k \in 1..3 : Hits(k, call.arg) = {}) => call.ret = Null
        /\ \A k \in 1..3 :
               (Hits(k, call.arg) # {} /\ \A j \in 1..(k - 1) : Hits(j, call.arg) = {})
                   => \E i \in Hits(k, call.arg) :
                          /\ \A j \in Hits(k, call.arg) : i <= j
                          /\ call.ret = PatternCapture(k, call.arg[i].text)

C20_Witness ==
    /\ call.fn = "commitMatch"
    /\ "ret" \in DOMAIN call
    /\ Len(call.arg) = 3
    /\ call.arg[1].text = "commit 9abcdef"
    /\ call.arg[2].text = "[def5678]"
    /\ call.arg[3].text = "COMMIT_HASH: h"
    /\ call.ret = Some("h")

\* the repository that a remote reference in a piece of output names
RemoteRepo(text) ==
    CASE text = "github.com/o/r"         -> Some("o/r")
      [] text = "git@github.com:o/r.git" -> Some("o/r")
      [] text = "github.com/o/r.js"      -> Some("o/r.js")
      [] OTHER                           -> Null

RemoteRefs(log) == {i \in DOMAIN log : RemoteRepo(log[i].text) # Null}

FirstRemoteRepo(log) ==
    RemoteRepo(log[CHOOSE i \in RemoteRefs(log) : \A j \in RemoteRefs(log) : i <= j].text)

\* C21: after the close handler commitUrl is set exactly when a commit hash
\* was extracted and the log has a github.com remote reference, and it is
\* then https://github.com/<owner>/<repo>/commit/<commitHash> for the
\* repository that the reference names; a record with a commitUrl always has
\* a commitHash.
C21_CommitUrlFromRemote ==
    /\ \A r \in DOMAIN heap : heap[r].commitUrl # Null => heap[r].commitHash # Null
    /\ \A q \in Accepted :
           proc[q].st = "closed" =>
               /\ (heap[q].commitUrl # Null)
                      <=> (heap[q].commitHash # Null /\ RemoteRefs(heap[q].log) # {})
               /\ heap[q].commitUrl # Null =>
                      heap[q].commitUrl =
                          Some(<< "https://github.com", FirstRemoteRepo(heap[q].log)[1],
                                  "commit", heap[q].commitHash[1] >>)

NoCommitText(log) == \A k \in 1..3 : Hits(k, log) = {}

\* C22: a task whose process exits with code 0 and whose log matches none of
\* the commit patterns is complete after the close handler, with commitHash
\* and commitUrl null, and its requester's only acknowledgment says success.
C22_ParseMissStaysComplete ==
    \A q \in Accepted :
        (proc[q].st = "closed" /\ proc[q].code = Some(0) /\ NoCommitText(heap[q].log)) =>
            /\ heap[q].status = "complete"
            /\ heap[q].commitHash = Null
            /\ heap[q].commitUrl = Null
            /\ sent[q] = << TaskStarted, Ack(TRUE) >>

C22_Witness ==
    \E q \in Accepted :
        /\ proc[q].st = "closed" /\ proc[q].code = Some(0)
        /\ Len(heap[q].log) = 2
        /\ heap[q].log[1].text = "noise"
        /\ heap[q].log[2].text = "github.com/o/r"
        /\ heap[q].status = "complete"
        /\ heap[q].commitHash = Null

\* C23: commit fields are set only by the step that makes a processing task
\* complete, and a failed task has commitHash and commitUrl null whatever
\* its log holds.
C23_CommitOnlyWhenComplete ==
    /\ [](\A r \in DOMAIN heap :
              heap[r].status = "failed" =>
                  heap[r].commitHash = Null /\ heap[r].commitUrl = Null)
    /\ [][\A r \in DOMAIN heap \cap DOMAIN heap' :
              (heap'[r].commitHash # heap[r].commitHash
                  \/ heap'[r].commitUrl # heap[r].commitUrl)
                  => heap[r].status = "processing" /\ heap'[r].status = "complete"]_vars

\* the request's spawn failed: its 'error' handler has run
SpawnFault(q) == Has(events[q], "error")

\* C29: a failed task has a null exitCode exactly when it failed by a spawn
\* fault; a task that failed because its agent process ended has an exit
\* code.
C29_NullExitCodeIffSpawnFault ==
    \A q \in Accepted :
        heap[q].status = "failed" =>
            ((heap[q].exitCode = Null) <=> SpawnFault(q))

IsList(c) == c.fn \in {"get_tasks", "GET /tasks"}

\* the object that the Map holds for an id
RefOfId(m, id) == m[CHOOSE i \in DOMAIN m : m[i].id = id].ref

\* C27: a task list (get_tasks, GET /tasks) holds every resident task once,
\* and of any two tasks the one accepted later (the one with the larger
\* reference) comes earlier in the list.
C27_ListMostRecentFirst ==
    [][(call' # call /\ IsList(call')) =>
          LET list == call'.ret IN
          /\ Len(list) = Len(tasks)
          /\ {list[i].id : i \in DOMAIN list} = Ids(tasks)
          /\ \A i, j \in DOMAIN list :
                 i < j => RefOfId(tasks, list[i].id) > RefOfId(tasks, list[j].id)]_vars

\* a record as a reader may find it: with none of the fields that a
\* terminal transition writes, or with the status, the completion time and
\* the commit fields that the transition derives from the record's log
NoneOrAll(t) ==
    IF t.status = "processing"
    THEN /\ t.completedAt = Null /\ t.exitCode = Null
         /\ t.commitHash = Null /\ t.commitUrl = Null
    ELSE /\ Terminal(t.status)
         /\ t.completedAt # Null
         /\ (t.status = "complete") <=> (t.exitCode = Some(0))
         /\ t.commitHash = CommitMatch(t.log)
         /\ (t.commitUrl # Null) <=> (t.commitHash # Null /\ RemoteMatch(t.log) # Null)

\* C28: every record of a task list (get_tasks, GET /tasks) and of the
\* registry file has none or all of the fields that a terminal transition
\* writes, and a log read returns none of them.
C28_ReadsSeeWholeUpdates ==
    /\ \A i \in DOMAIN disk : NoneOrAll(disk[i])
    /\ IsList(call) => \A i \in DOMAIN call.ret : NoneOrAll(call.ret[i])
    /\ call.fn = "GET /tasks/<id>/log" =>
           DOMAIN call.ret \in {{"code"}, {"code", "log"}}

C28_Witness ==
    /\ IsList(call)
    /\ \E i, j \in DOMAIN call.ret :
           /\ call.ret[i].status = "failed" /\ call.ret[i].exitCode = Null
           /\ call.ret[i].completedAt # Null
           /\ \E q \in Accepted : proc[q].st = "errored"
                                     /\ call.ret[i].log = << ErrorChunk(q) >>
           /\ call.ret[j].status = "complete" /\ call.ret[j].commitHash = Some("h")
    /\ \E k \in DOMAIN disk :
           disk[k].status = "complete" /\ disk[k].commitHash = Some("h")

IsUpdate(m) == m.type = "task_update"

\* what a step writes to connection c
NewMessages(c) ==
    IF c \in DOMAIN clients
    THEN SubSeq(clients'[c].inbox, Len(clients[c].inbox) + 1, Len(clients'[c].inbox))
    ELSE clients'[c].inbox

\* the tasks for which a step calls broadcastTaskUpdate: the one it creates,
\* or the one whose 'error' or 'close' handler it runs
Broadcasting ==
    {q \in DOMAIN heap' :
        \/ q \notin DOMAIN heap
        \/ /\ events'[q] # events[q]
           /\ events'[q][Len(events'[q])] \in {"error", "close"}}

\* C24: a call of broadcastTaskUpdate writes the update exactly once to
\* every connection that is open when the call is made, and no step writes
\* an update to any other connection: not to one that is closing or closed,
\* and not later to one that connects or was not open at the call.
C24_BroadcastToOpenOnly ==
    [][\A c \in DOMAIN clients' :
          IF Broadcasting # {} /\ c \in DOMAIN clients /\ clients[c].state = "open"
          THEN \E q \in Broadcasting :
                   SelectSeq(NewMessages(c), IsUpdate) = << TaskUpdate(heap'[q]) >>
          ELSE SelectSeq(NewMessages(c), IsUpdate) = << >>]_vars

C24_Witness ==
    /\ Len(clients) = 2
    /\ clients[1].state = "closing"
    /\ clients[2].state = "open"
    /\ \E q \in Accepted :
           /\ heap[q].status = "complete"
           /\ Len(SelectSeq(clients[1].inbox, IsUpdate)) = 1
           /\ ~Has(clients[1].inbox, TaskUpdate(heap[q]))
           /\ Has(clients[2].inbox, TaskUpdate(heap[q]))

\* C25: whenever a step creates a task or changes a task's status or log,
\* it writes a task_update with the task's new snapshot to every connection
\* that is open.
C25_UpdateOnEveryChange ==
    [][\A q \in DOMAIN heap' :
          (q \notin DOMAIN heap
              \/ heap'[q].status # heap[q].status
              \/ heap'[q].log # heap[q].log)
              => \A c \in DOMAIN clients :
                     clients[c].state = "open"
                         => Has(NewMessages(c), TaskUpdate(heap'[q]))]_vars

\* C26: the step that adds a task record writes task_started with the
\* task's id to the requester's connection, and when a later step writes
\* the task's terminal acknowledgment and terminal task_update, that
\* task_started is already on the requester's connection.
C26_StartedFirst ==
    [][/\ \A q \in DOMAIN heap' \ DOMAIN heap :
              \E c \in DOMAIN clients' :
                  /\ q \in clients'[c].reqs
                  /\ Has(NewMessages(c), StartedMsg(Some(heap'[q].id)))
       /\ \A q \in DOMAIN heap \cap DOMAIN heap' :
              (heap'[q] # heap[q] /\ Terminal(heap'[q].status))
                  => \E c \in DOMAIN clients :
                         /\ q \in clients[c].reqs
                         /\ Has(clients[c].inbox, StartedMsg(Some(heap[q].id)))]_vars

Notifications == {"CHANGE_APPLIED", "CHANGE_FAILED", "AUTO_APPLY_SUCCESS", "AUTO_APPLY_FAILED"}

\* C30: a connection of the MCP server whose token is not TOKEN (or is
\* missing) has been closed by the server and is never open, is never
\* connectedClient, never has the message handler attached and is never
\* sent anything, a notification in particular.
C30_OnlyTokenHolders ==
    \A c \in DOMAIN mcp.conns :
        mcp.conns[c].token # Some(TOKEN) =>
            /\ mcp.conns[c].state \in {"closing", "closed"}
            /\ mcp.connectedClient # c
            /\ ~mcp.conns[c].handlers
            /\ \A i \in DOMAIN mcp.conns[c].inbox :
                   mcp.conns[c].inbox[i].type \notin Notifications \cup {"ack"}

C30_Witness ==
    /\ Len(mcp.conns) = 2
    /\ mcp.conns[1].token = Some(TOKEN)
    /\ mcp.conns[2].token = Null
    /\ mcp.conns[2].state = "closing"
    /\ mcp.connectedClient = 1
    /\ Len(mcp.conns[1].inbox) = 3
    /\ mcp.conns[1].inbox[2].type = "CHANGE_FAILED"
    /\ mcp.conns[1].inbox[3].type = "AUTO_APPLY_SUCCESS"

\* C32: every request for which a task record was added to the store has
\* an agent process (or a spawn whose 'error' event fails the task): no
\* record stays processing with no process behind it.
C32_OneProcessPerRecord ==
    \A q \in Accepted : proc[q].st # "none"

\* the step removes a key from a full store
Evicts == Len(tasks) = MAX_TASKS /\ Ids(tasks') # Ids(tasks)

\* the record object of request q is not in the store
NotResident(q) == q \notin Refs(tasks)

\* a handler of request q's process runs in the step
HandlerOf(q) == q \in DOMAIN events /\ events'[q] # events[q]

EndsTask(q) == events'[q][Len(events'[q])] \in {"error", "close"}

\* C35, eviction: the record removed from a full store is the one inserted
\* earliest, whatever its status.
C35_EvictsEarliest ==
    Evicts => Refs(tasks) \ Refs(tasks') = {MinRef(tasks)}

\* C35, afterwards: a handler of a process whose record is not in the store
\* changes that record object only (the store and every other object stay
\* as they are), and its 'error' or 'close' handler still writes the
\* registry, broadcasts the task's update to the open connections and
\* acknowledges the requester.
C35_EvictedStaysOut ==
    \A q \in Accepted :
        (NotResident(q) /\ HandlerOf(q)) =>
            /\ tasks' = tasks
            /\ \A r \in DOMAIN heap \ {q} : heap'[r] = heap[r]
            /\ EndsTask(q) =>
                   /\ disk' = Stringify(Snapshot(tasks, heap))
                   /\ Len(sent'[q]) = Len(sent[q]) + 1
                   /\ \A c \in DOMAIN clients :
                          clients[c].state = "open"
                              => Has(NewMessages(c), TaskUpdate(heap'[q]))

\* C35: eviction removes the earliest-inserted record even while it is
\* processing; the evicted task's later events change only its own record
\* object, never a resident record, and still cause a registry write, a
\* task_update and the terminal acknowledgment.
C35_EvictionBlindToStatus == [][C35_EvictsEarliest /\ C35_EvictedStaysOut]_vars

\* the step adds the record of request q under an id that is resident
Resubmits(q) ==
    /\ q \notin DOMAIN heap
    /\ q \in DOMAIN heap'
    /\ MapHas(tasks, heap'[q].id)

\* request q's record was replaced in the store by a later one with its id
Replaced(q) == NotResident(q) /\ MapHas(tasks, heap[q].id)

\* C36: a request whose id is resident replaces the record in place (same
\* size, same position of the id) and starts a second process; afterwards
\* the handlers of the earlier process leave the store and the resident
\* record as they are, and the resident record's output is that of its own
\* process.
C36_ResubmissionReplaces ==
    /\ [][\A q \in DOMAIN heap' :
              Resubmits(q) =>
                  /\ Len(tasks') = Len(tasks)
                  /\ \A i \in DOMAIN tasks : tasks'[i].id = tasks[i].id
                  /\ RefOfId(tasks', heap'[q].id) = q
                  /\ proc'[q].st \in {"running", "spawnfail"}]_vars
    /\ [][\A q \in Accepted :
              (Replaced(q) /\ HandlerOf(q)) =>
                  /\ tasks' = tasks
                  /\ heap'[RefOfId(tasks, heap[q].id)] = heap[RefOfId(tasks, heap[q].id)]]_vars
    /\ [](\A q \in Accepted :
              ~NotResident(q) => SelectSeq(heap[q].log, IsData) = proc[q].out)

\* the requests for element e whose close handler has run
ClosedFor(e) == {q \in Accepted : proc[q].st = "closed" /\ heap[q].element = e}

\* the records of a bead that tasks of this run have written
Written(e) == SelectSeq(beads[e], LAMBDA r : r.taskId > 0)

\* C37: bead updates are never lost: with several tasks for one element
\* running at once and closing in any order, the bead holds one record per
\* closed task (as far as the cap of 10 allows), each with the task's id,
\* outcome and closing time, and the records stand in the order in which the
\* tasks closed: the task that closes is put last, behind the records of the
\* tasks that closed before it.
C37_NoLostBeadUpdate ==
    /\ [](\A e \in Elements :
             /\ Len(Written(e)) = Cardinality(ClosedFor(e))
             /\ \A q \in ClosedFor(e) :
                    \E i \in DOMAIN beads[e] :
                        beads[e][i] = [taskId    |-> heap[q].id,
                                       timestamp |-> heap[q].completedAt[1],
                                       success   |-> proc[q].code = Some(0)]
             /\ \A i, j \in DOMAIN beads[e] :
                    i < j => beads[e][i].timestamp <= beads[e][j].timestamp)
    /\ [][\A q \in DOMAIN proc :
              CloseStep(q) =>
                  LET e == heap[q].element
                      n == Len(beads'[e]) IN
                  /\ beads'[e][n].taskId = heap[q].id
                  /\ \A p \in ClosedFor(e) :
                         \E i \in 1..(n - 1) : beads'[e][i].taskId = heap[p].id]_vars

\* two tasks for el-a ran at once and closed in the reverse of the order in
\* which they were submitted
C37_Witness ==
    /\ Len(proc) = 2
    /\ ClosedFor("el-a") = {1, 2}
    /\ heap[1].id # heap[2].id
    /\ Len(beads["el-a"]) = BEAD_CAP
    /\ beads["el-a"][BEAD_CAP - 1].taskId = heap[2].id
    /\ beads["el-a"][BEAD_CAP].taskId = heap[1].id
    /\ beads["el-a"][BEAD_CAP - 1].timestamp < beads["el-a"][BEAD_CAP].timestamp

\* the step in which request q is accepted and its process is spawned
Spawns(q) == q \notin DOMAIN proc /\ q \in DOMAIN proc' /\ proc'[q].st # "none"

\* the changes listed in the prompt of request q
Listed(pr) == IF pr.beadContext = Null THEN << >> ELSE pr.beadContext[1]

\* change r is the record of request p
RecordOf(r, p) ==
    r = [taskId    |-> heap[p].id,
         timestamp |-> heap[p].completedAt[1],
         success   |-> proc[p].code = Some(0)]

\* C38: the memory context in a task's prompt is the bead as it was when
\* the request was accepted: it lists the last three changes of the bead of
\* that moment, each change of this run in it is the record of a task for
\* the element that had closed by then, every task closed by then is in it
\* (as far as three lines allow), and it stays as it is whatever closes or
\* is submitted later.
C38_ContextAsOfAcceptance ==
    /\ [][\A q \in DOMAIN proc' :
              Spawns(q) =>
                  LET e == heap'[q].element
                      listed == Listed(proc'[q]) IN
                  /\ listed = LastN(beads[e], 3)
                  /\ \A i \in DOMAIN listed :
                         listed[i].taskId > 0 =>
                             \E p \in ClosedFor(e) : RecordOf(listed[i], p)
                  /\ \A p \in ClosedFor(e) :
                         \E i \in DOMAIN listed : RecordOf(listed[i], p)]_vars
    /\ [][\A q \in DOMAIN proc :
              proc[q].st # "none" =>
                  /\ proc'[q].beadContext = proc[q].beadContext
                  /\ \A i \in DOMAIN Listed(proc[q]) :
                         Listed(proc[q])[i].taskId > 0 =>
                             \E p \in Accepted :
                                 p < q /\ Listed(proc[q])[i].taskId = heap[p].id]_vars

\* the second task for el-a was accepted after the first had closed and
\* its prompt lists the first task's change last, behind two older ones
C38_Witness ==
    /\ Len(proc) = 2
    /\ proc[1].st = "closed"
    /\ proc[2].st = "running"
    /\ Len(Listed(proc[1])) = 3
    /\ \A i \in 1..3 : Listed(proc[1])[i].taskId < 0
    /\ Len(Listed(proc[2])) = 3
    /\ Listed(proc[2])[2].taskId < 0
    /\ RecordOf(Listed(proc[2])[3], 1)

\* the variables named in the env option of spawn
AllowList == {"HOME", "PATH", "USER", "TERM", "ANTHROPIC_API_KEY"}

\* spawnEnv has been applied to both hosts
EnvBuilt == call.fn = "spawnEnv" /\ "ret" \in DOMAIN call

\* C31: the environment given to the agent process depends only on the
\* allow-listed variables of the host: it holds no other variable, and two
\* runs on hosts that agree on HOME, PATH, USER, TERM and ANTHROPIC_API_KEY
\* give their children the same environment.
C31_EnvFromAllowListOnly ==
    EnvBuilt =>
        /\ DOMAIN call.ret[1] \subseteq AllowList
        /\ (\A v \in AllowList : call.arg[1][v] = call.arg[2][v])
               => call.ret[1] = call.ret[2]

\* two hosts that differ in both other variables and in nothing else
C31_Witness ==
    /\ EnvBuilt
    /\ \A v \in AllowList : call.arg[1][v] = call.arg[2][v]
    /\ call.arg[1].AWS_SECRET # call.arg[2].AWS_SECRET
    /\ call.arg[1].NODE_OPTIONS # call.arg[2].NODE_OPTIONS
    /\ call.arg[1].USER = Null
    /\ call.ret[1] = call.ret[2]

\* C33: the payload written to the server carries the projectPath of the
\* SUBMIT_FEEDBACK message, and the stored projectPath only when the message
\* has none.
C33_MessagePathSent ==
    \A i \in DOMAIN ext.out :
        LET m == ext.requests[ext.out[i].id] IN
        /\ m.projectPath # Null => ext.out[i].projectPath = m.projectPath[1]
        /\ ext.out[i].projectPath = m.path

\* C34: connectionStatus is 'connected' only while `socket` refers to a
\* WebSocket that is open.
C34_ConnectedOnlyWhileOpen ==
    ext.connectionStatus = "connected" => IsOpen(ext)

\* the overlay shows a task that is being worked on
Working == page.pendingTask # Null /\ page.pendingTask[1].status = "working"

\* C39: the overlay of a pending task stays as it is, in state 'working',
\* until a TASK_UPDATE with its task's id and a terminal status arrives or
\* another task is submitted; no other TASK_UPDATE and no timer changes or
\* removes it.
C39_OverlayStaysWorking ==
    [][Working =>
           \/ page'.pendingTask = page.pendingTask
           \/ \E taskId \in TaskIds : page' = handleTaskSubmitted(page, taskId)
           \/ \E status \in {"complete", "failed"} :
                  page' = handleTaskUpdate(page, page.pendingTask[1].taskId, status)]_vars

====
